---- MODULE Spec2Model ----
(***************************************************************************)
(* memex: the durable job queue (lib/shared/src/db/queue.rs) and the       *)
(* scheduler / worker dispatcher / ingest handlers that run on top of it   *)
(* (lib/worker/src/lib.rs).                                                *)
(*                                                                         *)
(* Three specifications share the queue table:                               *)
(*   QueueSpec  the four queue operations applied by two clients that each *)
(*              hold the job ids check_for_jobs handed them;               *)
(*   Spec       the worker process as start() builds it: one scheduler     *)
(*              loop, one dispatcher loop, one spawned handler per ingest  *)
(*              job, the shared num_active counter, the bounded command    *)
(*              channel and the shutdown broadcast;                        *)
(*   IngestSpec the body of two ingest handlers that run concurrently for  *)
(*              one collection (_process_embeddings): the documents and    *)
(*              embeddings tables, the segment transaction, and the local  *)
(*              vector store with its files on disk.                       *)
(***************************************************************************)
EXTENDS Integers, Sequences, FiniteSets, TLC

VARIABLES
    queue,       \* the queue table: row id -> row (ids are 1..Len(queue))
    clock,       \* chrono::Utc::now(), as read by the last operation
    claims,      \* history: how often check_for_jobs has returned each id
    got,         \* QueueSpec: per client, the job ids it was handed and still owns
    sawNone,     \* QueueSpec: the clients whose check_for_jobs, made since the
                 \* last enqueue, returned none
    num_active,  \* WorkerInstanceLimits.num_active
    chan,        \* the mpsc channel scheduler -> dispatcher (job ids, in order)
    schedPc,     \* run_scheduler: where the loop is suspended
    schedJob,    \* run_scheduler: the job it is about to send (0: none)
    workersPc,   \* run_workers: "recv", "returned" or "panicked"
    handler,     \* per job id, the state of its spawned ingest task
    shutdown,    \* AppShutdown::Now has been broadcast
    documents,   \* the documents table: the uuids of its rows (uuid is unique)
    embeddings,  \* the embeddings table: its committed rows, in id order
    vdisk,       \* the collection's directory on disk and the store's files
    vmem,        \* per ingest handler, its HnswStore instance
    ipc,         \* per ingest handler, where _process_embeddings stands
    windows,     \* per ingest task, how many windows the embedder returns
    vecOk,       \* per ingest handler, the result of add_vectors in this run
    err,         \* per ingest handler, what made its last run return Err
    attempts,    \* per ingest task, how often its handler has been run
    scheme,      \* the scheme of the VECTOR_CONNECTION uri
    serving,     \* main has spawned the roles
    resp         \* ApiSpec: the last request served and what it answered

vars == <<queue, clock, claims, got, sawNone, num_active, chan, schedPc, schedJob,
          workersPc, handler, shutdown, documents, embeddings, vdisk, vmem, ipc,
          windows, vecOk, err, attempts, scheme, serving, resp>>

queueVars == <<queue, clock, claims>>
workerVars == <<num_active, chan, schedPc, schedJob, workersPc, handler, shutdown>>
ingestVars == <<documents, embeddings, vdisk, vmem, ipc, windows, vecOk, err, attempts>>
apiVars == <<scheme, serving, resp>>

----------------------------------------------------------------------------
(* Bounds of the model *)

\* rows the clients of QueueSpec enqueue
MaxRows == 2
\* rows the API enqueues in Spec
MaxTasks == 6
\* of these, the summarize tasks
MaxLLMTasks == 1
\* handler runs that end in an error path in Spec (row not found again, no
\* vector-store client, _process_embeddings returns Err)
MaxFaults == 1
\* windows the embedder returns for one document in IngestSpec
MaxWindows == 2
\* runs of the ingest handler for one task in IngestSpec
MaxAttempts == 2
\* the limit of a search request in ApiSpec
MaxLimit == 2
\* words of a text handed to the LLM functions in LlmSpec
MaxWords == 3
\* points one store instance inserts in StoreSpec
MaxPoints == 2
\* short words before the long run of a text in SplitSpec, and after it
MaxLead == 12
MaxTail == 3

(* Program constants *)

MAX_RETRIES == 5
max_active == 5
ChannelCapacity == 5

Clients == {1, 2}
JobStatus == {"Queued", "Processing", "Completed", "Failed"}
TaskType == {"Ingest", "Extract", "Summarize"}
\* the task types an endpoint enqueues (handle_add_document, handle_summarize)
EnqueuedTypes == {"Ingest", "Summarize"}
\* what a caller records for a failure, and whether it asks for a retry
ErrorKinds == {"Transient", "Permanent"}
NoError == "None"
NoJob == 0

----------------------------------------------------------------------------
(* The queue table and its operations (lib/shared/src/db/queue.rs) *)

\* ActiveModel::new + enqueue: a row with status Queued, the column default
\* num_retries = 0, no error, created_at = now
NewRow(task_type, now) ==
    [ task_type   |-> task_type,
      payload     |-> [content |-> <<task_type, now>>],
      status      |-> "Queued",
      error       |-> NoError,
      num_retries |-> 0,
      created_at  |-> now ]

enqueue_Prepend(q, task_type, now) == <<NewRow(task_type, now)>> \o q

\* enqueue: INSERT ... RETURNING; the auto-increment id is the next index
enqueue(q, task_type, now) == Append(q, NewRow(task_type, now))

Ids(q) == DOMAIN q

WithStatus(q, s) == { i \in Ids(q) : q[i].status = s }

\* check_for_jobs, the sub-select:
\*   SELECT id FROM queue WHERE status = 'Queued'
\*   ORDER BY queue.created_at ASC LIMIT 1
\* The statement orders by created_at alone, so among rows with the same
\* created_at the engine may return any one of them.
ClaimCandidates_AnyOpenRow(q) ==
    LET open == WithStatus(q, "Queued") \cup WithStatus(q, "Processing")
    IN  { i \in open : \A j \in open : q[i].created_at <= q[j].created_at }

ClaimCandidates_Newest(q) ==
    { i \in WithStatus(q, "Queued") :
        \A j \in WithStatus(q, "Queued") : q[i].created_at >= q[j].created_at }

ClaimCandidates_Terminal(q) ==
    LET sel == WithStatus(q, "Queued") \cup WithStatus(q, "Failed")
    IN  { i \in sel : \A j \in sel : q[i].created_at <= q[j].created_at }

ClaimCandidates(q) ==
    { i \in WithStatus(q, "Queued") :
        \A j \in WithStatus(q, "Queued") : q[i].created_at <= q[j].created_at }

SetProcessing_AllQueued(q, id) ==
    [i \in Ids(q) |->
        IF q[i].status = "Queued" THEN [q[i] EXCEPT !.status = "Processing"]
        ELSE q[i]]

\* check_for_jobs, the UPDATE: status = 'Processing' on the selected row
SetProcessing(q, id) == [q EXCEPT ![id].status = "Processing"]

\* mark_done: find_by_id, then status = Completed
mark_done(q, id) ==
    IF id \in Ids(q) THEN [q EXCEPT ![id].status = "Completed"] ELSE q

mark_failed_IgnoreRetry(q, id, retry, error) ==
    IF id \notin Ids(q) THEN q
    ELSE IF q[id].num_retries <= MAX_RETRIES
         THEN [q EXCEPT ![id].num_retries = q[id].num_retries + 1,
                        ![id].status = "Queued",
                        ![id].error = error]
         ELSE [q EXCEPT ![id].status = "Failed",
                        ![id].error = error]

mark_failed_NewStamp(q, id, retry, error) ==
    IF id \notin Ids(q) THEN q
    ELSE IF retry /\ q[id].num_retries <= MAX_RETRIES
         THEN [q EXCEPT ![id].num_retries = q[id].num_retries + 1,
                        ![id].status = "Queued",
                        ![id].error = error,
                        ![id].created_at = q[Len(q)].created_at + 1]
         ELSE [q EXCEPT ![id].status = "Failed",
                        ![id].error = error]

\* mark_failed: find_by_id; retry && num_retries <= MAX_RETRIES re-queues and
\* bumps num_retries, anything else fails the task; the error is recorded
\* either way
mark_failed(q, id, retry, error) ==
    IF id \notin Ids(q) THEN q
    ELSE IF retry /\ q[id].num_retries <= MAX_RETRIES
         THEN [q EXCEPT ![id].num_retries = q[id].num_retries + 1,
                        ![id].status = "Queued",
                        ![id].error = error]
         ELSE [q EXCEPT ![id].status = "Failed",
                        ![id].error = error]

----------------------------------------------------------------------------
(* The local vector store (lib/libmemex/src/storage/local.rs) *)

\* serde_json writes the usize keys of _id_map as decimal strings (here the
\* string's digits) and reads them back
RECURSIVE Decimal(_)
Decimal(n) == IF n < 10 THEN <<n>> ELSE Append(Decimal(n \div 10), n % 10)

RECURSIVE ParseDecimal(_)
ParseDecimal(ds) ==
    IF Len(ds) = 1 THEN ds[1]
    ELSE 10 * ParseDecimal(SubSeq(ds, 1, Len(ds) - 1)) + ds[Len(ds)]

\* HnswStore::new: an empty graph and an empty _id_map
NoStore == [_id_map |-> << >>, hnsw |-> {}]

\* a collection directory: whether it exists, whether the meta file
\* vectors.meta.json is in it (saved), whether the dump files
\* vectors.hnsw.graph and vectors.hnsw.data are (graph), the members of the
\* JSON object in the meta file and the points of the dump
NoCollection ==
    [dir |-> FALSE, saved |-> FALSE, graph |-> FALSE, meta |-> {}, points |-> {}]

\* HnswStore::insert: the point gets internal id len + 1 in _id_map and is
\* inserted into the graph under that id
insert(store, doc_id) ==
    LET next_id == Len(store._id_map) + 1
    IN  [_id_map |-> Append(store._id_map, doc_id),
         hnsw    |-> store.hnsw \cup {next_id}]

\* bulk_insert on the local store: one insert per entry, in order
RECURSIVE bulk_insert(_, _)
bulk_insert(store, data) ==
    IF data = << >> THEN store
    ELSE bulk_insert(insert(store, Head(data)), Tail(data))

\* HnswStore::has_store: the meta file exists
has_store(files) == files.saved

load_KeysShifted(files) ==
    LET keys == { ParseDecimal(m[1]) : m \in files.meta }
    IN  [_id_map |-> [k \in keys |->
                        (CHOOSE m \in files.meta :
                            ParseDecimal(m[1]) = (k % Cardinality(keys)) + 1)[2]],
         hnsw    |-> files.points]

\* HnswStore::load: the graph from the two dump files, _id_map from the
\* meta file
load(files) ==
    LET keys == { ParseDecimal(m[1]) : m \in files.meta }
    IN  [_id_map |-> [k \in keys |->
                        (CHOOSE m \in files.meta : ParseDecimal(m[1]) = k)[2]],
         hnsw    |-> files.points]

\* HnswStore::save: the directory is created if need be, the graph is
\* dumped and the whole _id_map written over the meta file
save(store) ==
    [dir    |-> TRUE,
     saved  |-> TRUE,
     graph  |-> TRUE,
     meta   |-> { <<Decimal(k), store._id_map[k]>> : k \in DOMAIN store._id_map },
     points |-> store.hnsw]

\* HnswStore::save, its first half: self.hnsw.file_dump(&filename) writes
\* the graph and data files
file_dump(files, store) ==
    [files EXCEPT !.dir = TRUE, !.graph = TRUE, !.points = store.hnsw]

\* HnswStore::save, its second half: File::create(id_map) and f.write(..)
\* write the meta file
write_meta(files, store) ==
    [files EXCEPT
        !.saved = TRUE,
        !.meta = { <<Decimal(k), store._id_map[k]>> : k \in DOMAIN store._id_map }]

\* get_vector_storage, scheme hnsw: the collection directory is created if
\* it is missing; the store is loaded if there is one, else new
OpenStore(files) == IF has_store(files) THEN load(files) ELSE NoStore

OpenDir(files) == [files EXCEPT !.dir = TRUE]

\* the uuids the persisted id map holds
StoredUuids(files) == { m[2] : m \in files.meta }

\* hnsw.search(vec, limit, ef): the points nearest to the query, nearest
\* first, at most limit of them; a query is taken as the order of nearness
\* it puts the store's points in
Rankings(store) ==
    { query \in [1 .. Cardinality(store.hnsw) -> store.hnsw] :
        \A p \in store.hnsw : \E i \in DOMAIN query : query[i] = p }

Neighbours(query, limit) ==
    SubSeq(query, 1, IF limit < Len(query) THEN limit ELSE Len(query))

\* HnswStore::search: each neighbour's uuid from _id_map with its similarity
\* (here its rank: 1 is the nearest)
search(store, query, limit) ==
    LET neighbors == Neighbours(query, limit)
    IN  [i \in 1 .. Len(neighbors) |->
            [uuid |-> store._id_map[neighbors[i]], score |-> i]]

\* HnswStore::delete_all: the three files are removed, the graph replaced
\* by an empty one and _id_map cleared
delete_all(store) == NoStore

\* HnswStore::delete: unimplemented!(..) panics, no value is returned and
\* the store is not touched
delete(store, id) == [outcome |-> "panic", store |-> store]

RemoveFiles_Keep(files) == files

RemoveFiles(files) ==
    [files EXCEPT !.saved = FALSE, !.graph = FALSE, !.meta = {}, !.points = {}]

----------------------------------------------------------------------------
(* Texts and the LLM budgets (lib/libmemex/src/llm) *)

\* Max context - response length - prompt length
MAX_TOKENS == 4097 - 1024 - 100
MAX_16K_TOKENS == 16384 - 2048 - 100
\* llm::local::MAX_TOKENS
LOCAL_MAX_TOKENS == 2048 - 512 - 100

\* A string is a sequence of pieces: a space, or a run of text without a
\* space, each with its length in bytes and the tokens cl100k_base counts
\* for it (a space is counted with the run it precedes).
SP == [len |-> 1, tok |-> 0]

\* runs of text: ordinary prose (four bytes a token) of 500 tokens and of
\* exactly MAX_TOKENS tokens, and dense text (a byte a token) of 6000 and of
\* 15000 tokens
Runs ==
    { [len |-> 2000, tok |-> 500],
      [len |-> 4 * MAX_TOKENS, tok |-> MAX_TOKENS],
      [len |-> 6000, tok |-> 6000],
      [len |-> 15000, tok |-> 15000] }

RECURSIVE Bytes(_)
\* str.len()
Bytes(str) == IF str = << >> THEN 0 ELSE Head(str).len + Bytes(Tail(str))

RECURSIVE Tokens(_)
\* cl.encode_with_special_tokens(str).len()
Tokens(str) == IF str = << >> THEN 0 ELSE Head(str).tok + Tokens(Tail(str))

RECURSIVE Split(_)
\* str.split(' ')
Split(str) ==
    IF \A i \in DOMAIN str : str[i] # SP
      THEN <<str>>
      ELSE LET i == CHOOSE j \in DOMAIN str :
                       str[j] = SP /\ \A k \in 1 .. j - 1 : str[k] # SP
           IN  <<SubSeq(str, 1, i - 1)>> \o Split(SubSeq(str, i + 1, Len(str)))

RECURSIVE Join(_)
\* parts.join(" ")
Join(parts) ==
    IF parts = << >> THEN << >>
    ELSE IF Len(parts) = 1 THEN parts[1]
    ELSE parts[1] \o <<SP>> \o Join(Tail(parts))

\* the texts of requests and tasks: one to MaxWords runs, a space between
Texts ==
    UNION { { Join([i \in 1 .. n |-> <<ws[i]>>]) : ws \in [1 .. n -> Runs] }
            : n \in 1 .. MaxWords }

\* a short word of prose
Word == [len |-> 4, tok |-> 1]

\* texts of many words: short words, one long run, short words again
LongTexts ==
    { Join([k \in 1 .. i |-> <<Word>>] \o <<<<run>>>> \o [k \in 1 .. j |-> <<Word>>]) :
        i \in 0 .. MaxLead, j \in 0 .. MaxTail, run \in Runs }

RECURSIVE SplitLoop_DrainAll(_, _, _, _, _)
SplitLoop_DrainAll(txts, split_size, part, size, doc_parts) ==
    IF txts = << >>
      THEN IF part # << >> THEN Append(doc_parts, Join(part)) ELSE doc_parts
      ELSE LET txt   == Head(txts)
               flush == size + Bytes(txt) > split_size
               kept  == IF flush THEN << >> ELSE part
               size1 == IF flush THEN 0 ELSE size
           IN  SplitLoop_DrainAll(Tail(txts), split_size, Append(kept, txt),
                                  size1 + Bytes(txt) + 1,
                                  IF flush THEN Append(doc_parts, Join(part)) ELSE doc_parts)

RECURSIVE SplitLoop(_, _, _, _, _)
\* split_text, the loop over text.split(' ')
SplitLoop(txts, split_size, part, size, doc_parts) ==
    IF txts = << >>
      THEN IF part # << >> THEN Append(doc_parts, Join(part)) ELSE doc_parts
      ELSE LET txt   == Head(txts)
               flush == size + Bytes(txt) > split_size
               end   == IF Len(part) > 10 THEN Len(part) - 10 ELSE Len(part)
               kept  == IF flush THEN SubSeq(part, end + 1, Len(part)) ELSE part
               size1 == IF flush THEN Bytes(Join(kept)) ELSE size
           IN  SplitLoop(Tail(txts), split_size, Append(kept, txt),
                         size1 + Bytes(txt) + 1,
                         IF flush THEN Append(doc_parts, Join(part)) ELSE doc_parts)

\* split_text (max_tokens is never 0 where it is called, so checked_div
\* always divides)
split_text(text, max_tokens) ==
    IF Tokens(text) <= max_tokens
      THEN <<text>>
      ELSE LET split_count == (Tokens(text) \div max_tokens) + 2
               split_size  == Bytes(text) \div split_count
           IN  IF split_size = Bytes(text)
                 THEN <<text>>
                 ELSE SplitLoop(Split(text), split_size, << >>, 0, << >>)

\* openai::segment
segment(content) ==
    LET size == Tokens(content)
    IN  IF size < MAX_TOKENS
          THEN [splits |-> <<content>>, model |-> "gpt-3.5-turbo"]
          ELSE IF size > MAX_TOKENS /\ size < MAX_16K_TOKENS
                 THEN [splits |-> <<content>>, model |-> "gpt-3.5-turbo-16k"]
                 ELSE [splits |-> split_text(content, MAX_16K_TOKENS),
                       model  |-> "gpt-3.5-turbo-16k"]

\* LocalLLM::segment_text
segment_text(text) ==
    IF Tokens(text) <= LOCAL_MAX_TOKENS
      THEN [splits |-> <<text>>, model |-> ""]
      ELSE [splits |-> split_text(text, LOCAL_MAX_TOKENS), model |-> ""]

RECURSIVE TruncateLoop(_, _, _)
\* truncate_text, the loop over text.split(' '): the run is pushed onto the
\* buffer as it is, nothing is put between two runs
TruncateLoop(txts, buffer, max_tokens) ==
    IF txts = << >> THEN buffer
    ELSE LET with_txt == buffer \o Head(txts)
         IN  IF Tokens(with_txt) > max_tokens
               THEN buffer
               ELSE TruncateLoop(Tail(txts), with_txt, max_tokens)

\* openai::truncate_text
truncate_text(text) ==
    IF Tokens(text) <= MAX_TOKENS
      THEN [content |-> text, model |-> "gpt-3.5-turbo"]
      ELSE IF Tokens(text) <= MAX_16K_TOKENS
             THEN [content |-> text, model |-> "gpt-3.5-turbo-16k"]
             ELSE [content |-> TruncateLoop(Split(text), << >>, MAX_16K_TOKENS),
                   model   |-> "gpt-3.5-turbo-16k"]

\* LocalLLM::truncate_text
local_truncate_text(text) ==
    IF Tokens(text) <= LOCAL_MAX_TOKENS
      THEN [content |-> text, model |-> ""]
      ELSE [content |-> TruncateLoop(Split(text), << >>, LOCAL_MAX_TOKENS),
            model   |-> ""]

----------------------------------------------------------------------------
(* The API's answers (lib/api/src/lib.rs) *)

\* get_vector_storage: the backend the uri's scheme selects
Schemes == {"hnsw", "opensearch+https", "other"}

Backend(s) ==
    IF s = "hnsw" THEN "LocalGraph"
    ELSE IF s = "opensearch+https" THEN "RemoteSearch"
    ELSE "Unsupported"

\* handle_rejection: the status code and message of a rejected request
handle_rejection(rejection) ==
    IF rejection = "not_found"
      THEN [code |-> 404, message |-> "NOT_FOUND"]
      ELSE IF rejection = "method_not_allowed"
             THEN [code |-> 405, message |-> "METHOD_NOT_ALLOWED"]
             ELSE [code |-> 500, message |-> "UNHANDLED_REJECTION"]

\* no request served yet; found tells whether the collection was there when
\* the request came, store is the handler's store client when it returns,
\* text the request's text, content and splits what was made of it for the
\* model of that budget, llm_calls the chat_completion calls issued
NoResp ==
    [op |-> "none", code |-> 0, message |-> "", limit |-> 0,
     hits |-> << >>, results |-> << >>, found |-> FALSE, store |-> NoStore,
     text |-> << >>, content |-> << >>, splits |-> << >>, budget |-> 0,
     json_schema |-> "none", llm_calls |-> 0, model |-> "",
     answers |-> << >>, summary |-> << >>, result |-> ""]

\* a handler returned Err(warp::reject::custom(ServerError::..))
Rejected(op, rejection) ==
    [NoResp EXCEPT !.op = op,
                   !.code = handle_rejection(rejection).code,
                   !.message = handle_rejection(rejection).message]

----------------------------------------------------------------------------
(* QueueSpec: the queue operations applied by two clients *)

Init ==
    /\ queue = << >>
    /\ clock = 0
    /\ claims = << >>
    /\ got = [c \in Clients |-> {}]
    /\ sawNone = {}
    /\ num_active = 0
    /\ chan = << >>
    /\ schedPc = "select"
    /\ schedJob = NoJob
    /\ workersPc = "recv"
    /\ handler = << >>
    /\ shutdown = FALSE
    /\ documents = {}
    /\ embeddings = << >>
    /\ vdisk = NoCollection
    /\ vmem = << >>
    /\ ipc = << >>
    /\ windows = << >>
    /\ vecOk = << >>
    /\ err = << >>
    /\ attempts = << >>
    /\ scheme = "hnsw"
    /\ serving = TRUE
    /\ resp = NoResp

\* enqueue(db, job_id, content): the row's created_at is the caller's
\* Utc::now(), which may or may not have advanced since the last enqueue
ClientEnqueue ==
    /\ Len(queue) < MaxRows
    /\ \E now \in {clock, clock + 1} :
        /\ queue' = enqueue(queue, "Ingest", now)
        /\ clock' = now
    /\ claims' = Append(claims, 0)
    /\ handler' = Append(handler, "none")
    /\ sawNone' = {}
    /\ UNCHANGED <<got, num_active, chan, schedPc, schedJob, workersPc, shutdown>>
    /\ UNCHANGED ingestVars
    /\ UNCHANGED apiVars

\* check_for_jobs(db) called by client c: one statement, so one atomic step
ClientClaim(c) ==
    /\ \/ \E id \in ClaimCandidates(queue) :
            /\ queue' = SetProcessing(queue, id)
            /\ claims' = [claims EXCEPT ![id] = @ + 1]
            /\ got' = [got EXCEPT ![c] = @ \cup {id}]
            /\ sawNone' = sawNone \ {c}
       \/ /\ ClaimCandidates(queue) = {}
          /\ sawNone' = sawNone \cup {c}
          /\ UNCHANGED <<queue, claims, got>>
    /\ UNCHANGED clock
    /\ UNCHANGED workerVars
    /\ UNCHANGED ingestVars
    /\ UNCHANGED apiVars

\* mark_done(db, id) by the client that was handed id
ClientMarkDone(c) ==
    /\ \E id \in got[c] :
        /\ queue' = mark_done(queue, id)
        /\ got' = [got EXCEPT ![c] = @ \ {id}]
    /\ UNCHANGED <<clock, claims, sawNone>>
    /\ UNCHANGED workerVars
    /\ UNCHANGED ingestVars
    /\ UNCHANGED apiVars

\* mark_failed(db, id, retry, error) by the client that was handed id; the
\* caller asks for a retry exactly for a transient error
ClientMarkFailed(c) ==
    /\ \E id \in got[c], kind \in ErrorKinds :
        /\ queue' = mark_failed(queue, id, kind = "Transient", kind)
        /\ got' = [got EXCEPT ![c] = @ \ {id}]
    /\ UNCHANGED <<clock, claims, sawNone>>
    /\ UNCHANGED workerVars
    /\ UNCHANGED ingestVars
    /\ UNCHANGED apiVars

QueueNext ==
    \/ ClientEnqueue
    \/ \E c \in Clients : ClientClaim(c)
    \/ \E c \in Clients : ClientMarkDone(c)
    \/ \E c \in Clients : ClientMarkFailed(c)

QueueSpec == Init /\ [][QueueNext]_vars

----------------------------------------------------------------------------
(* Spec: the worker process (lib/worker/src/lib.rs) *)

clientVars == <<got, sawNone>>

\* WorkerInstanceLimits::can_work
can_work_AtMost(n) == n <= max_active

can_work(n) == n < max_active

LLMTasks(q) == { i \in Ids(q) : q[i].task_type # "Ingest" }

\* the handler runs that took an error path
Faulted == { i \in DOMAIN handler :
               handler[i] \in {"skipped", "noclient", "errored", "failed"} }

MayFault == Cardinality(Faulted) < MaxFaults

\* handle_add_document / handle_summarize: the API enqueues a task of the
\* endpoint's type, stamped with its own Utc::now(); it does so whatever the
\* worker is doing
ApiEnqueue ==
    /\ Len(queue) < MaxTasks
    /\ \E task_type \in EnqueuedTypes :
        /\ task_type # "Ingest" => Cardinality(LLMTasks(queue)) < MaxLLMTasks
        /\ queue' = enqueue(queue, task_type, clock + 1)
        /\ clock' = clock + 1
    /\ claims' = Append(claims, 0)
    /\ handler' = Append(handler, "none")
    /\ UNCHANGED <<num_active, chan, schedPc, schedJob, workersPc, shutdown>>
    /\ UNCHANGED clientVars
    /\ UNCHANGED ingestVars
    /\ UNCHANGED apiVars

\* start: ctrl_c arrives and AppShutdown::Now is broadcast to both loops
SignalShutdown ==
    /\ ~shutdown
    /\ shutdown' = TRUE
    /\ UNCHANGED <<num_active, chan, schedPc, schedJob, workersPc, handler>>
    /\ UNCHANGED queueVars
    /\ UNCHANGED clientVars
    /\ UNCHANGED ingestVars
    /\ UNCHANGED apiVars

SchedCheckLimit_AfterStop ==
    /\ schedPc \in {"select", "stopped"}
    /\ schedPc' = IF can_work(num_active) THEN "claim" ELSE "select"
    /\ UNCHANGED <<num_active, chan, schedJob, workersPc, handler, shutdown>>
    /\ UNCHANGED queueVars
    /\ UNCHANGED clientVars
    /\ UNCHANGED ingestVars
    /\ UNCHANGED apiVars

\* run_scheduler, select! takes the job branch; check_for_jobs_with_limit
\* reads can_work under the lock and releases it. At the limit the branch
\* yields Ok(None), the loop ticks and selects again.
SchedCheckLimit ==
    /\ schedPc = "select"
    /\ schedPc' = IF can_work(num_active) THEN "claim" ELSE "select"
    /\ UNCHANGED <<num_active, chan, schedJob, workersPc, handler, shutdown>>
    /\ UNCHANGED queueVars
    /\ UNCHANGED clientVars
    /\ UNCHANGED ingestVars
    /\ UNCHANGED apiVars

\* run_scheduler, check_for_jobs completes: Ok(Some(job)) or Ok(None)
SchedClaim ==
    /\ schedPc = "claim"
    /\ \/ \E id \in ClaimCandidates(queue) :
            /\ queue' = SetProcessing(queue, id)
            /\ claims' = [claims EXCEPT ![id] = @ + 1]
            /\ schedJob' = id
            /\ schedPc' = "count"
       \/ /\ ClaimCandidates(queue) = {}
          /\ schedPc' = "select"
          /\ UNCHANGED <<queue, claims, schedJob>>
    /\ UNCHANGED <<clock, num_active, chan, workersPc, handler, shutdown>>
    /\ UNCHANGED clientVars
    /\ UNCHANGED ingestVars
    /\ UNCHANGED apiVars

\* run_scheduler, Ok(Some(job)): limits.num_active += 1 under the lock
SchedCount ==
    /\ schedPc = "count"
    /\ num_active' = num_active + 1
    /\ schedPc' = "send"
    /\ UNCHANGED <<chan, schedJob, workersPc, handler, shutdown>>
    /\ UNCHANGED queueVars
    /\ UNCHANGED clientVars
    /\ UNCHANGED ingestVars
    /\ UNCHANGED apiVars

\* run_scheduler, queue.send(cmd(job)).await: waits while the channel is
\* full, fails once the receiver is gone ("Worker channel closed", return)
SchedSend ==
    /\ schedPc = "send"
    /\ \/ /\ workersPc = "recv"
          /\ Len(chan) < ChannelCapacity
          /\ chan' = Append(chan, schedJob)
          /\ schedPc' = "select"
       \/ /\ workersPc # "recv"
          /\ schedPc' = "stopped"
          /\ UNCHANGED chan
    /\ schedJob' = NoJob
    /\ UNCHANGED <<num_active, workersPc, handler, shutdown>>
    /\ UNCHANGED queueVars
    /\ UNCHANGED clientVars
    /\ UNCHANGED ingestVars
    /\ UNCHANGED apiVars

\* run_scheduler, select! takes shutdown_rx.recv() at the top of the loop
SchedShutdown ==
    /\ schedPc = "select"
    /\ shutdown
    /\ schedPc' = "stopped"
    /\ UNCHANGED <<num_active, chan, schedJob, workersPc, handler, shutdown>>
    /\ UNCHANGED queueVars
    /\ UNCHANGED clientVars
    /\ UNCHANGED ingestVars
    /\ UNCHANGED apiVars

\* run_scheduler, select! takes shutdown_rx.recv() while check_for_jobs is
\* in flight: the future is dropped. The statement may not have run, or the
\* database has run it and its result is never read.
SchedCancelClaim ==
    /\ schedPc = "claim"
    /\ shutdown
    /\ schedPc' = "stopped"
    /\ \/ UNCHANGED <<queue, claims>>
       \/ \E id \in ClaimCandidates(queue) :
            /\ queue' = SetProcessing(queue, id)
            /\ claims' = [claims EXCEPT ![id] = @ + 1]
    /\ UNCHANGED <<clock, num_active, chan, schedJob, workersPc, handler, shutdown>>
    /\ UNCHANGED clientVars
    /\ UNCHANGED ingestVars
    /\ UNCHANGED apiVars

\* run_workers, task_queue.recv() yields GenerateEmbedding(job): the row is
\* read again; Ok(Some(model)) spawns the handler, anything else continues
\* with the next command
WorkersRecvIngest ==
    /\ workersPc = "recv"
    /\ chan # << >>
    /\ queue[Head(chan)].task_type = "Ingest"
    /\ chan' = Tail(chan)
    /\ \/ handler' = [handler EXCEPT ![Head(chan)] = "spawned"]
       \/ /\ MayFault
          /\ handler' = [handler EXCEPT ![Head(chan)] = "skipped"]
    /\ UNCHANGED <<num_active, schedPc, schedJob, workersPc, shutdown>>
    /\ UNCHANGED queueVars
    /\ UNCHANGED clientVars
    /\ UNCHANGED ingestVars
    /\ UNCHANGED apiVars

\* run_workers, task_queue.recv() yields LLMExtract or LLMSummarize: todo!()
\* panics the dispatcher task; its receiver is dropped with what it buffers
WorkersRecvLLM ==
    /\ workersPc = "recv"
    /\ chan # << >>
    /\ queue[Head(chan)].task_type \in {"Extract", "Summarize"}
    /\ workersPc' = "panicked"
    /\ chan' = << >>
    /\ UNCHANGED <<num_active, schedPc, schedJob, handler, shutdown>>
    /\ UNCHANGED queueVars
    /\ UNCHANGED clientVars
    /\ UNCHANGED ingestVars
    /\ UNCHANGED apiVars

\* run_workers, select! takes shutdown_rx.recv(): return, dropping the receiver
WorkersShutdown ==
    /\ workersPc = "recv"
    /\ shutdown
    /\ workersPc' = "returned"
    /\ chan' = << >>
    /\ UNCHANGED <<num_active, schedPc, schedJob, handler, shutdown>>
    /\ UNCHANGED queueVars
    /\ UNCHANGED clientVars
    /\ UNCHANGED ingestVars
    /\ UNCHANGED apiVars

\* the spawned task: get_vector_storage, then _process_embeddings.
\*   no client        -> return (nothing else is touched)
\*   Err from process -> logged
\*   Ok               -> _process_embeddings has called mark_done
HandlerRun(id) ==
    /\ handler[id] = "spawned"
    /\ \/ /\ MayFault
          /\ handler' = [handler EXCEPT ![id] = "noclient"]
          /\ UNCHANGED queue
       \/ /\ MayFault
          /\ handler' = [handler EXCEPT ![id] = "errored"]
          /\ UNCHANGED queue
       \/ /\ handler' = [handler EXCEPT ![id] = "marked"]
          /\ queue' = mark_done(queue, id)
    /\ UNCHANGED <<clock, claims, num_active, chan, schedPc, schedJob, workersPc, shutdown>>
    /\ UNCHANGED clientVars
    /\ UNCHANGED ingestVars
    /\ UNCHANGED apiVars

\* the spawned task, after _process_embeddings returned Ok or Err:
\* limits.num_active -= 1 under the lock
HandlerRelease(id) ==
    /\ handler[id] \in {"errored", "marked"}
    /\ num_active' = num_active - 1
    /\ handler' = [handler EXCEPT ![id] = IF handler[id] = "marked" THEN "done" ELSE "failed"]
    /\ UNCHANGED <<chan, schedPc, schedJob, workersPc, shutdown>>
    /\ UNCHANGED queueVars
    /\ UNCHANGED clientVars
    /\ UNCHANGED ingestVars
    /\ UNCHANGED apiVars

Next ==
    \/ ApiEnqueue
    \/ SignalShutdown
    \/ SchedCheckLimit
    \/ SchedClaim
    \/ SchedCount
    \/ SchedSend
    \/ SchedShutdown
    \/ SchedCancelClaim
    \/ WorkersRecvIngest
    \/ WorkersRecvLLM
    \/ WorkersShutdown
    \/ \E id \in Ids(queue) : HandlerRun(id)
    \/ \E id \in Ids(queue) : HandlerRelease(id)

Spec == Init /\ [][Next]_vars

\* the worker process at a moment when task 1 has been claimed and
\* dispatched and its handler is running, the signal not yet sent
DrainInit ==
    /\ queue = SetProcessing(enqueue(<< >>, "Ingest", 1), 1)
    /\ clock = 1
    /\ claims = <<1>>
    /\ got = [c \in Clients |-> {}]
    /\ sawNone = {}
    /\ num_active = 1
    /\ chan = << >>
    /\ schedPc = "select"
    /\ schedJob = NoJob
    /\ workersPc = "recv"
    /\ handler = <<"spawned">>
    /\ shutdown = FALSE
    /\ documents = {}
    /\ embeddings = << >>
    /\ vdisk = NoCollection
    /\ vmem = << >>
    /\ ipc = << >>
    /\ windows = << >>
    /\ vecOk = << >>
    /\ err = << >>
    /\ attempts = << >>
    /\ scheme = "hnsw"
    /\ serving = TRUE
    /\ resp = NoResp

DrainSpec == DrainInit /\ [][Next]_vars

----------------------------------------------------------------------------
(* IngestSpec: _process_embeddings run by two concurrent handlers *)

\* the two ingest tasks (queue ids) whose handlers run, both of one collection
IngestTasks == {1, 2}

\* document::ActiveModel::from_task: the uuid is Uuid::new_v5 of the task id
\* and of nothing else (a hash, taken to be collision-free)
DocUuid(task_id) == <<"doc", task_id>>

\* the segment uuid is Uuid::new_v5 of "{document.uuid}-{idx}"
SegUuid(document_uuid, idx) == <<document_uuid, idx>>

\* embedder.encode(content): the k-th window it returns for the task's content
Window(task_id, k) == <<"window", task_id, k>>

Encoded(task_id) == [k \in 1 .. windows[task_id] |-> Window(task_id, k)]

new_seg_OneBased(document_uuid, idx, content) ==
    [ uuid        |-> SegUuid(document_uuid, idx + 1),
      document_id |-> document_uuid,
      segment     |-> idx + 1,
      content     |-> content ]

\* embedding::ActiveModel as the loop fills it in
new_seg(document_uuid, idx, content) ==
    [ uuid        |-> SegUuid(document_uuid, idx),
      document_id |-> document_uuid,
      segment     |-> idx,
      content     |-> content ]

\* for (idx, embedding) in embeddings.iter().enumerate(): the rows inserted
\* on the transaction, idx counting from 0
SegmentRows(task_id) ==
    [k \in 1 .. windows[task_id] |->
        new_seg(DocUuid(task_id), k - 1, Encoded(task_id)[k])]

\* the VectorData pushed for each row: its _id is the segment uuid
VectorIds(task_id) ==
    [k \in 1 .. windows[task_id] |-> SegmentRows(task_id)[k].uuid]

AfterAddVectors_Propagate(result) == IF result = "err" THEN "failed" ELSE "commit"

\* if let Err(err) = client.add_vectors(..) { log::error!(..) }: either way
\* the function goes on to txn.commit()
AfterAddVectors(result) == "commit"

\* two ingest tasks claimed and dispatched, their handlers just spawned; the
\* tables and the collection directory are empty
IngestInit ==
    /\ queue = SetProcessing(SetProcessing(
                  enqueue(enqueue(<< >>, "Ingest", 1), "Ingest", 2), 1), 2)
    /\ clock = 2
    /\ claims = <<1, 1>>
    /\ got = [c \in Clients |-> {}]
    /\ sawNone = {}
    /\ num_active = 2
    /\ chan = << >>
    /\ schedPc = "select"
    /\ schedJob = NoJob
    /\ workersPc = "recv"
    /\ handler = <<"spawned", "spawned">>
    /\ shutdown = FALSE
    /\ documents = {}
    /\ embeddings = << >>
    /\ vdisk = NoCollection
    /\ vmem = [t \in IngestTasks |-> NoStore]
    /\ ipc = [t \in IngestTasks |-> "spawned"]
    /\ windows \in [IngestTasks -> 1 .. MaxWindows]
    /\ vecOk = [t \in IngestTasks |-> "none"]
    /\ err = [t \in IngestTasks |-> "none"]
    /\ attempts = [t \in IngestTasks |-> 1]
    /\ scheme = "hnsw"
    /\ serving = TRUE
    /\ resp = NoResp

\* the spawned task: get_vector_storage builds a store instance of its own
\* for the collection from the files on disk
GetVectorStorage(t) ==
    /\ ipc[t] = "spawned"
    /\ vmem' = [vmem EXCEPT ![t] = OpenStore(vdisk)]
    /\ vdisk' = OpenDir(vdisk)
    /\ ipc' = [ipc EXCEPT ![t] = "encode"]
    /\ UNCHANGED <<documents, embeddings, windows, vecOk, err, attempts>>
    /\ UNCHANGED <<queueVars, clientVars, workerVars>>
    /\ UNCHANGED apiVars

\* embedder.encode(content).await?
Encode(t) ==
    /\ ipc[t] = "encode"
    /\ \/ /\ ipc' = [ipc EXCEPT ![t] = "document"]
          /\ UNCHANGED <<err, vmem>>
       \/ /\ ipc' = [ipc EXCEPT ![t] = "failed"]
          /\ err' = [err EXCEPT ![t] = "encode"]
          /\ vmem' = [vmem EXCEPT ![t] = NoStore]
    /\ UNCHANGED <<documents, embeddings, vdisk, windows, vecOk, attempts>>
    /\ UNCHANGED <<queueVars, clientVars, workerVars>>
    /\ UNCHANGED apiVars

\* document.insert(&db).await?: on the connection, outside any transaction;
\* the unique key on documents.uuid rejects a second row with the same uuid
InsertDocument(t) ==
    /\ ipc[t] = "document"
    /\ \/ /\ DocUuid(t) \notin documents
          /\ documents' = documents \cup {DocUuid(t)}
          /\ ipc' = [ipc EXCEPT ![t] = "segments"]
          /\ UNCHANGED <<err, vmem>>
       \/ /\ ipc' = [ipc EXCEPT ![t] = "failed"]
          /\ err' = [err EXCEPT ![t] =
                        IF DocUuid(t) \in documents THEN "conflict" ELSE "document"]
          /\ vmem' = [vmem EXCEPT ![t] = NoStore]
          /\ UNCHANGED documents
    /\ UNCHANGED <<embeddings, vdisk, windows, vecOk, attempts>>
    /\ UNCHANGED <<queueVars, clientVars, workerVars>>
    /\ UNCHANGED apiVars

\* db.begin() and the loop of new_seg.insert(&txn).await?: the rows stay in
\* the transaction; an error drops the transaction, which rolls it back
InsertSegments(t) ==
    /\ ipc[t] = "segments"
    /\ \/ /\ ipc' = [ipc EXCEPT ![t] = "vectors"]
          /\ UNCHANGED <<err, vmem>>
       \/ /\ ipc' = [ipc EXCEPT ![t] = "failed"]
          /\ err' = [err EXCEPT ![t] = "segment"]
          /\ vmem' = [vmem EXCEPT ![t] = NoStore]
    /\ UNCHANGED <<documents, embeddings, vdisk, windows, vecOk, attempts>>
    /\ UNCHANGED <<queueVars, clientVars, workerVars>>
    /\ UNCHANGED apiVars

\* client.add_vectors(vectors): locks this handler's own instance, inserts
\* every entry and saves the instance over the files; or fails
AddVectors(t) ==
    /\ ipc[t] = "vectors"
    /\ \E result \in {"ok", "err"} :
        /\ vecOk' = [vecOk EXCEPT ![t] = result]
        /\ IF result = "ok"
             THEN /\ vmem' = [vmem EXCEPT ![t] = bulk_insert(vmem[t], VectorIds(t))]
                  /\ vdisk' = save(vmem'[t])
             ELSE UNCHANGED <<vmem, vdisk>>
        /\ ipc' = [ipc EXCEPT ![t] = AfterAddVectors(result)]
        /\ err' = [err EXCEPT ![t] =
                      IF AfterAddVectors(result) = "failed" THEN "vectors" ELSE @]
    /\ UNCHANGED <<documents, embeddings, windows, attempts>>
    /\ UNCHANGED <<queueVars, clientVars, workerVars>>
    /\ UNCHANGED apiVars

\* txn.commit().await?
Commit(t) ==
    /\ ipc[t] = "commit"
    /\ \/ /\ embeddings' = embeddings \o SegmentRows(t)
          /\ ipc' = [ipc EXCEPT ![t] = "markdone"]
          /\ UNCHANGED <<err, vmem>>
       \/ /\ ipc' = [ipc EXCEPT ![t] = "failed"]
          /\ err' = [err EXCEPT ![t] = "commit"]
          /\ vmem' = [vmem EXCEPT ![t] = NoStore]
          /\ UNCHANGED embeddings
    /\ UNCHANGED <<documents, vdisk, windows, vecOk, attempts>>
    /\ UNCHANGED <<queueVars, clientVars, workerVars>>
    /\ UNCHANGED apiVars

\* let _ = queue::mark_done(&db, task.id).await; Ok(())
MarkDone(t) ==
    /\ ipc[t] = "markdone"
    /\ queue' = mark_done(queue, t)
    /\ ipc' = [ipc EXCEPT ![t] = "done"]
    /\ vmem' = [vmem EXCEPT ![t] = NoStore]
    /\ UNCHANGED <<documents, embeddings, vdisk, windows, vecOk, err, attempts>>
    /\ UNCHANGED <<clock, claims, clientVars, workerVars>>
    /\ UNCHANGED apiVars

\* the handler is run again for a task whose last run returned Err (what a
\* retry of the task does)
Rerun(t) ==
    /\ ipc[t] = "failed"
    /\ attempts[t] < MaxAttempts
    /\ attempts' = [attempts EXCEPT ![t] = @ + 1]
    /\ ipc' = [ipc EXCEPT ![t] = "spawned"]
    /\ vecOk' = [vecOk EXCEPT ![t] = "none"]
    /\ err' = [err EXCEPT ![t] = "none"]
    /\ UNCHANGED <<documents, embeddings, vdisk, vmem, windows>>
    /\ UNCHANGED <<queueVars, clientVars, workerVars>>
    /\ UNCHANGED apiVars

IngestNext ==
    \/ \E t \in IngestTasks : GetVectorStorage(t)
    \/ \E t \in IngestTasks : Encode(t)
    \/ \E t \in IngestTasks : InsertDocument(t)
    \/ \E t \in IngestTasks : InsertSegments(t)
    \/ \E t \in IngestTasks : AddVectors(t)
    \/ \E t \in IngestTasks : Commit(t)
    \/ \E t \in IngestTasks : MarkDone(t)
    \/ \E t \in IngestTasks : Rerun(t)

IngestSpec == IngestInit /\ [][IngestNext]_vars

----------------------------------------------------------------------------
(* ApiSpec: the process from main on, its requests served one at a time *)

\* schema::DocumentSegment built from a hit and the row found for it
DocumentSegment(hit, row) ==
    [_id         |-> hit.uuid,
     document_id |-> row.document_id,
     segment     |-> row.segment,
     content     |-> row.content,
     score       |-> hit.score]

\* embedding::Entity::find().filter(Uuid.eq(internal_id)).one(&db): the
\* first row with that uuid, if there is one
FindByUuid(rows, uuid) == { k \in DOMAIN rows : rows[k].uuid = uuid }

First(S) == CHOOSE k \in S : \A j \in S : k <= j

RECURSIVE JoinHits_Reversed(_, _)
JoinHits_Reversed(hits, rows) ==
    IF hits = << >> THEN << >>
    ELSE LET found == FindByUuid(rows, Head(hits).uuid)
         IN  JoinHits_Reversed(Tail(hits), rows) \o
             (IF found # {}
                THEN <<DocumentSegment(Head(hits), rows[First(found)])>>
                ELSE << >>)

\* handle_search_docs, the loop over search_result: a result is pushed for
\* every hit whose row is found, the others are passed over
RECURSIVE JoinHits(_, _)
JoinHits(hits, rows) ==
    IF hits = << >> THEN << >>
    ELSE LET found == FindByUuid(rows, Head(hits).uuid)
         IN  (IF found # {}
                THEN <<DocumentSegment(Head(hits), rows[First(found)])>>
                ELSE << >>) \o
             JoinHits(Tail(hits), rows)

\* main has not run yet; the queue table holds two Ingest tasks, of two
\* windows and of one, nothing else is stored and the collection has no
\* directory
ApiInit ==
    /\ queue = enqueue(enqueue(<< >>, "Ingest", 1), "Ingest", 2)
    /\ clock = 2
    /\ claims = <<0, 0>>
    /\ got = [c \in Clients |-> {}]
    /\ sawNone = {}
    /\ num_active = 0
    /\ chan = << >>
    /\ schedPc = "select"
    /\ schedJob = NoJob
    /\ workersPc = "recv"
    /\ handler = <<"none", "none">>
    /\ shutdown = FALSE
    /\ documents = {}
    /\ embeddings = << >>
    /\ vdisk = NoCollection
    /\ vmem = [t \in IngestTasks |-> NoStore]
    /\ ipc = [t \in IngestTasks |-> "queued"]
    /\ windows = <<2, 1>>
    /\ vecOk = [t \in IngestTasks |-> "none"]
    /\ err = [t \in IngestTasks |-> "none"]
    /\ attempts = [t \in IngestTasks |-> 1]
    /\ scheme \in Schemes
    /\ serving = FALSE
    /\ resp = NoResp

\* main: VECTOR_CONNECTION has to be set, nothing else is asked of it; the
\* api and worker roles are spawned
Startup ==
    /\ ~serving
    /\ serving' = TRUE
    /\ UNCHANGED <<scheme, resp>>
    /\ UNCHANGED <<queueVars, clientVars, workerVars, ingestVars>>

\* a task from check_for_jobs to the return of its handler (the steps of
\* Spec and IngestSpec taken together): the row is claimed; without a store
\* client the handler returns at once; else the document is inserted, the
\* vectors are added or not, the segments committed or not
IngestRun(t) ==
    /\ serving
    /\ t \in ClaimCandidates(queue)
    /\ Backend(scheme) # "RemoteSearch"
    /\ claims' = [claims EXCEPT ![t] = @ + 1]
    /\ IF Backend(scheme) = "Unsupported"
         THEN /\ queue' = SetProcessing(queue, t)
              /\ handler' = [handler EXCEPT ![t] = "noclient"]
              /\ ipc' = [ipc EXCEPT ![t] = "failed"]
              /\ err' = [err EXCEPT ![t] = "storage"]
              /\ UNCHANGED <<documents, embeddings, vdisk, vecOk>>
         ELSE \E added, committed \in BOOLEAN :
              /\ documents' = documents \cup {DocUuid(t)}
              /\ vecOk' = [vecOk EXCEPT ![t] = IF added THEN "ok" ELSE "err"]
              /\ vdisk' = IF added
                            THEN save(bulk_insert(OpenStore(vdisk), VectorIds(t)))
                            ELSE OpenDir(vdisk)
              /\ embeddings' = IF committed THEN embeddings \o SegmentRows(t)
                               ELSE embeddings
              /\ queue' = IF committed THEN mark_done(SetProcessing(queue, t), t)
                          ELSE SetProcessing(queue, t)
              /\ handler' = [handler EXCEPT ![t] = IF committed THEN "done" ELSE "failed"]
              /\ ipc' = [ipc EXCEPT ![t] = IF committed THEN "done" ELSE "failed"]
              /\ err' = [err EXCEPT ![t] = IF committed THEN "none" ELSE "commit"]
    /\ UNCHANGED <<vmem, windows, attempts>>
    /\ UNCHANGED <<clock, clientVars, apiVars>>
    /\ UNCHANGED <<num_active, chan, schedPc, schedJob, workersPc, shutdown>>

\* handle_search_docs: the store client (which creates the collection's
\* directory), the query's embedding, the store's search, then the join
\* with the embeddings table
ApiSearch ==
    /\ serving
    /\ Backend(scheme) # "RemoteSearch"
    /\ \E limit \in 0 .. MaxLimit :
        IF Backend(scheme) = "Unsupported"
          THEN /\ resp' = Rejected("search", "ServerError::Other")
               /\ UNCHANGED vdisk
          ELSE /\ vdisk' = OpenDir(vdisk)
               /\ \/ resp' = [Rejected("search", "ServerError::Other")
                                 EXCEPT !.found = vdisk.dir]
                  \/ \E query \in Rankings(OpenStore(vdisk)) :
                       LET hits == search(OpenStore(vdisk), query, limit)
                       IN  resp' = [NoResp EXCEPT
                                       !.op = "search",
                                       !.code = 200,
                                       !.limit = limit,
                                       !.hits = hits,
                                       !.results = JoinHits(hits, embeddings),
                                       !.found = vdisk.dir,
                                       !.store = OpenStore(vdisk)]
    /\ UNCHANGED <<scheme, serving>>
    /\ UNCHANGED <<documents, embeddings, vmem, ipc, windows, vecOk, err, attempts>>
    /\ UNCHANGED <<queueVars, clientVars, workerVars>>

\* handle_delete_collection: the store client, then delete_all on it
ApiDeleteCollection ==
    /\ serving
    /\ Backend(scheme) # "RemoteSearch"
    /\ IF Backend(scheme) = "Unsupported"
         THEN /\ resp' = Rejected("delete", "ServerError::Other")
              /\ UNCHANGED vdisk
         ELSE /\ vdisk' = RemoveFiles(OpenDir(vdisk))
              /\ resp' = [NoResp EXCEPT
                              !.op = "delete",
                              !.code = 200,
                              !.found = has_store(vdisk),
                              !.store = delete_all(OpenStore(vdisk))]
    /\ UNCHANGED <<scheme, serving>>
    /\ UNCHANGED <<documents, embeddings, vmem, ipc, windows, vecOk, err, attempts>>
    /\ UNCHANGED <<queueVars, clientVars, workerVars>>

\* a caller of VectorStore::delete on the store client of the collection
StoreDelete ==
    /\ serving
    /\ Backend(scheme) = "LocalGraph"
    /\ \E id \in StoredUuids(vdisk) \cup {SegUuid(DocUuid(1), 0)} :
         LET called == delete(OpenStore(vdisk), id)
         IN  resp' = [NoResp EXCEPT
                         !.op = "store.delete",
                         !.message = called.outcome,
                         !.found = id \in StoredUuids(vdisk),
                         !.store = called.store]
    /\ vdisk' = OpenDir(vdisk)
    /\ UNCHANGED <<scheme, serving>>
    /\ UNCHANGED <<documents, embeddings, vmem, ipc, windows, vecOk, err, attempts>>
    /\ UNCHANGED <<queueVars, clientVars, workerVars>>

ApiNext ==
    \/ Startup
    \/ \E t \in IngestTasks : IngestRun(t)
    \/ ApiSearch
    \/ ApiDeleteCollection
    \/ StoreDelete

ApiSpec == ApiInit /\ [][ApiNext]_vars

----------------------------------------------------------------------------
(* LlmSpec: the functions that fit a text to a model, where they are called *)

\* AskRequest.json_schema: absent, a well-formed schema, an ill-formed one
Schemas == {"none", "valid", "invalid"}

\* JSONSchema::options().compile(schema)
compile(schema) ==
    IF schema = "invalid"
      THEN [ok |-> FALSE, err |-> "schema is not valid"]
      ELSE [ok |-> TRUE, err |-> ""]

\* handle_extract: truncate_text, the schema compiled if there is one, then
\* chat_completion, which answers or fails (the ServerError's own message
\* does not reach handle_rejection's reply)
ApiExtract ==
    /\ serving
    /\ \E text \in Texts, json_schema \in Schemas :
         LET truncated == truncate_text(text)
             sofar == [NoResp EXCEPT
                          !.op = "extract",
                          !.text = text,
                          !.content = truncated.content,
                          !.model = truncated.model,
                          !.budget = IF truncated.model = "gpt-3.5-turbo"
                                       THEN MAX_TOKENS ELSE MAX_16K_TOKENS,
                          !.json_schema = json_schema]
             rejected(rejection) ==
                 [sofar EXCEPT !.code = handle_rejection(rejection).code,
                               !.message = handle_rejection(rejection).message]
         IN  IF json_schema # "none" /\ ~compile(json_schema).ok
               THEN resp' = rejected("ServerError::ClientRequestError")
               ELSE \/ resp' = [sofar EXCEPT !.code = 200, !.llm_calls = 1]
                    \/ resp' = [rejected("ServerError::Other") EXCEPT !.llm_calls = 1]
    /\ UNCHANGED <<scheme, serving>>
    /\ UNCHANGED <<queueVars, clientVars, workerVars, ingestVars>>

\* what chat_completion answers to the summarize prompt of a chunk
Response(chunk) == <<"summary", chunk>>

RECURSIVE Buffer(_, _)
\* generate_summary, the loop: if let Ok(content) = .. { buffer.push_str(&content) }
Buffer(splits, answers) ==
    IF splits = << >> THEN << >>
    ELSE (IF Head(answers) = "ok" THEN <<Response(Head(splits))>> ELSE << >>)
           \o Buffer(Tail(splits), Tail(answers))

\* generate_summary: segment, then one chat_completion for every split,
\* each of which answers or fails; the function returns Ok(buffer)
GenerateSummary ==
    /\ serving
    /\ \E text \in Texts :
         LET segmented == segment(text)
         IN  \E answers \in [1 .. Len(segmented.splits) -> {"ok", "err"}] :
               resp' = [NoResp EXCEPT
                           !.op = "summarize",
                           !.text = text,
                           !.splits = segmented.splits,
                           !.model = segmented.model,
                           !.budget = IF segmented.model = "gpt-3.5-turbo"
                                        THEN MAX_TOKENS ELSE MAX_16K_TOKENS,
                           !.llm_calls = Len(segmented.splits),
                           !.answers = answers,
                           !.summary = Buffer(segmented.splits, answers),
                           !.result = "Ok"]
    /\ UNCHANGED <<scheme, serving>>
    /\ UNCHANGED <<queueVars, clientVars, workerVars, ingestVars>>

\* a call of LocalLLM::segment_text
LocalSegmentText ==
    /\ serving
    /\ \E text \in Texts :
         resp' = [NoResp EXCEPT
                     !.op = "local.segment_text",
                     !.text = text,
                     !.splits = segment_text(text).splits,
                     !.budget = LOCAL_MAX_TOKENS]
    /\ UNCHANGED <<scheme, serving>>
    /\ UNCHANGED <<queueVars, clientVars, workerVars, ingestVars>>

\* a call of LocalLLM::truncate_text
LocalTruncateText ==
    /\ serving
    /\ \E text \in Texts :
         resp' = [NoResp EXCEPT
                     !.op = "local.truncate_text",
                     !.text = text,
                     !.content = local_truncate_text(text).content,
                     !.budget = LOCAL_MAX_TOKENS]
    /\ UNCHANGED <<scheme, serving>>
    /\ UNCHANGED <<queueVars, clientVars, workerVars, ingestVars>>

LlmNext ==
    \/ ApiExtract
    \/ GenerateSummary
    \/ LocalSegmentText
    \/ LocalTruncateText

LlmSpec == Init /\ [][LlmNext]_vars

----------------------------------------------------------------------------
(* StoreSpec: two store instances of one collection directory, each used by
   its own task; the file writes of a save are steps of their own *)

\* nothing is stored and no instance has been built
StoreInit ==
    /\ queue = << >>
    /\ clock = 0
    /\ claims = << >>
    /\ got = [c \in Clients |-> {}]
    /\ sawNone = {}
    /\ num_active = 0
    /\ chan = << >>
    /\ schedPc = "select"
    /\ schedJob = NoJob
    /\ workersPc = "recv"
    /\ handler = << >>
    /\ shutdown = FALSE
    /\ documents = {}
    /\ embeddings = << >>
    /\ vdisk = NoCollection
    /\ vmem = [t \in IngestTasks |-> NoStore]
    /\ ipc = [t \in IngestTasks |-> "closed"]
    /\ windows = << >>
    /\ vecOk = [t \in IngestTasks |-> "none"]
    /\ err = [t \in IngestTasks |-> "none"]
    /\ attempts = [t \in IngestTasks |-> 0]
    /\ scheme = "hnsw"
    /\ serving = TRUE
    /\ resp = NoResp

\* get_vector_storage: a task builds its instance, loaded from the files if
\* the meta file is there; File::open(graph_path)? of load fails when the
\* dump files are not, and no instance is built
StoreOpen(t) ==
    /\ ipc[t] = "closed"
    /\ vdisk' = OpenDir(vdisk)
    /\ IF has_store(vdisk) /\ ~vdisk.graph
         THEN /\ err' = [err EXCEPT ![t] = "load"]
              /\ UNCHANGED <<vmem, ipc>>
         ELSE /\ vmem' = [vmem EXCEPT ![t] = OpenStore(vdisk)]
              /\ ipc' = [ipc EXCEPT ![t] = "open"]
              /\ err' = [err EXCEPT ![t] = "none"]
    /\ UNCHANGED <<documents, embeddings, windows, vecOk, attempts>>
    /\ UNCHANGED <<queueVars, clientVars, workerVars, apiVars>>

\* HnswStore::insert up to the graph dump of its save
StoreInsert(t) ==
    /\ ipc[t] = "open"
    /\ attempts[t] < MaxPoints
    /\ attempts' = [attempts EXCEPT ![t] = @ + 1]
    /\ vmem' = [vmem EXCEPT ![t] = insert(vmem[t], SegUuid(DocUuid(t), attempts[t]))]
    /\ vdisk' = file_dump(vdisk, vmem'[t])
    /\ ipc' = [ipc EXCEPT ![t] = "saving"]
    /\ UNCHANGED <<documents, embeddings, windows, vecOk, err>>
    /\ UNCHANGED <<queueVars, clientVars, workerVars, apiVars>>

\* HnswStore::insert, the rest of its save: the meta file
StoreWriteMeta(t) ==
    /\ ipc[t] = "saving"
    /\ vdisk' = write_meta(vdisk, vmem[t])
    /\ ipc' = [ipc EXCEPT ![t] = "open"]
    /\ UNCHANGED <<documents, embeddings, vmem, windows, vecOk, err, attempts>>
    /\ UNCHANGED <<queueVars, clientVars, workerVars, apiVars>>

\* HnswStore::delete_all
StoreDeleteAll(t) ==
    /\ ipc[t] = "open"
    /\ vmem' = [vmem EXCEPT ![t] = delete_all(vmem[t])]
    /\ vdisk' = RemoveFiles(vdisk)
    /\ UNCHANGED <<documents, embeddings, ipc, windows, vecOk, err, attempts>>
    /\ UNCHANGED <<queueVars, clientVars, workerVars, apiVars>>

\* HnswStore::search: a neighbour the graph returns is looked up in _id_map
\* with .expect(..), which panics when it is not there
StoreSearch(t) ==
    /\ ipc[t] = "open"
    /\ \E query \in Rankings(vmem[t]) :
         LET neighbors == Neighbours(query, MaxLimit)
         IN  IF \A i \in DOMAIN neighbors : neighbors[i] \in DOMAIN vmem[t]._id_map
               THEN resp' = [NoResp EXCEPT
                                !.op = "store.search",
                                !.limit = MaxLimit,
                                !.hits = search(vmem[t], query, MaxLimit)]
               ELSE resp' = [NoResp EXCEPT
                                !.op = "store.search",
                                !.limit = MaxLimit,
                                !.message = "Internal inconsistency"]
    /\ UNCHANGED <<scheme, serving>>
    /\ UNCHANGED <<queueVars, clientVars, workerVars, ingestVars>>

\* the task ends and its instance is dropped
StoreDrop(t) ==
    /\ ipc[t] = "open"
    /\ vmem' = [vmem EXCEPT ![t] = NoStore]
    /\ ipc' = [ipc EXCEPT ![t] = "closed"]
    /\ UNCHANGED <<documents, embeddings, vdisk, windows, vecOk, err, attempts>>
    /\ UNCHANGED <<queueVars, clientVars, workerVars, apiVars>>

StoreNext ==
    \/ \E t \in IngestTasks : StoreOpen(t)
    \/ \E t \in IngestTasks : StoreInsert(t)
    \/ \E t \in IngestTasks : StoreWriteMeta(t)
    \/ \E t \in IngestTasks : StoreDeleteAll(t)
    \/ \E t \in IngestTasks : StoreSearch(t)
    \/ \E t \in IngestTasks : StoreDrop(t)

StoreSpec == StoreInit /\ [][StoreNext]_vars

----------------------------------------------------------------------------
(* SplitSpec: segment and segment_text given texts of many words *)

\* segment called with a long payload
SegmentLong ==
    /\ serving
    /\ \E text \in LongTexts :
         resp' = [NoResp EXCEPT
                     !.op = "segment",
                     !.text = text,
                     !.splits = segment(text).splits,
                     !.model = segment(text).model,
                     !.budget = MAX_16K_TOKENS]
    /\ UNCHANGED <<scheme, serving>>
    /\ UNCHANGED <<queueVars, clientVars, workerVars, ingestVars>>

\* LocalLLM::segment_text called with a long text
SegmentTextLong ==
    /\ serving
    /\ \E text \in LongTexts :
         resp' = [NoResp EXCEPT
                     !.op = "segment_text",
                     !.text = text,
                     !.splits = segment_text(text).splits,
                     !.budget = LOCAL_MAX_TOKENS]
    /\ UNCHANGED <<scheme, serving>>
    /\ UNCHANGED <<queueVars, clientVars, workerVars, ingestVars>>

SplitNext ==
    \/ SegmentLong
    \/ SegmentTextLong

SplitSpec == Init /\ [][SplitNext]_vars

----------------------------------------------------------------------------
(* Properties of the queue operations (QueueSpec) *)

Holders(id) == { c \in Clients : id \in got[c] }

\* C1 - Claim exclusivity: a row that is Processing was handed to exactly one
\* client and a row in any other status is held by none, so two concurrent
\* check_for_jobs calls never both receive the same Queued row; an id is
\* returned again only after mark_failed re-queued it (each re-queue bumps
\* num_retries).
ClaimExclusivity ==
    \A id \in Ids(queue) :
        /\ Cardinality(Holders(id)) = (IF queue[id].status = "Processing" THEN 1 ELSE 0)
        /\ claims[id] <= queue[id].num_retries + 1

\* one Queued row, both clients have called since it was enqueued: client 1
\* received it, client 2 received none
ClaimExclusivityWitness ==
    /\ Len(queue) = 1
    /\ queue[1].status = "Processing"
    /\ queue[1].num_retries = 0
    /\ got[1] = {1}
    /\ got[2] = {}
    /\ 2 \in sawNone

\* C2 - Retry bound: every task has num_retries <= MAX_RETRIES.
RetryBound ==
    \A id \in Ids(queue) : queue[id].num_retries <= MAX_RETRIES

\* C4 - Retry then fail: a task that fails with a retriable error on every
\* attempt is re-queued at most MAX_RETRIES times (so it is claimed at most
\* MAX_RETRIES + 1 times) and ends Failed with num_retries = MAX_RETRIES.
RetryThenFail ==
    \A id \in Ids(queue) :
        /\ claims[id] <= MAX_RETRIES + 1
        /\ (queue[id].status = "Failed" /\ queue[id].error = "Transient")
              => queue[id].num_retries = MAX_RETRIES

LifecycleSteps ==
    { <<"Queued", "Processing">>, <<"Processing", "Completed">>,
      <<"Processing", "Failed">>, <<"Processing", "Queued">> }

\* C9 - Task lifecycle: a step changes a task's status only along
\* Queued -> Processing, Processing -> Completed, Processing -> Failed or
\* Processing -> Queued; a Completed or Failed task keeps its status.
Lifecycle ==
    [][ \A id \in Ids(queue) :
          queue'[id].status # queue[id].status
            => <<queue[id].status, queue'[id].status>> \in LifecycleSteps ]_vars

\* both terminal statuses reached, one of them after a re-queue, and the
\* clients go on operating on the queue
LifecycleWitness ==
    /\ Len(queue) = 2
    /\ queue[1].status = "Completed"
    /\ queue[2].status = "Failed"
    /\ queue[2].num_retries >= 1
    /\ sawNone # {}

\* rows never claimed are not older than any row that has been claimed
FifoPrefix ==
    \A i, k \in Ids(queue) :
        (claims[i] >= 1 /\ claims[k] = 0)
            => queue[i].created_at <= queue[k].created_at

\* the row a check_for_jobs step returns was Queued with the smallest created_at
ClaimsOldest ==
    \A id \in Ids(queue) :
        claims'[id] > claims[id]
            => /\ queue[id].status = "Queued"
               /\ \A j \in WithStatus(queue, "Queued") :
                     queue[id].created_at <= queue[j].created_at

\* C10 - FIFO dispatch: check_for_jobs always returns a Queued row with the
\* smallest created_at; hence rows enqueued at increasing created_at are
\* first claimed in enqueue order.
FifoDispatch == []FifoPrefix /\ [][ClaimsOldest]_vars

\* one client claimed two rows enqueued at different times, oldest first
FifoWitness ==
    /\ Len(queue) = 2
    /\ queue[1].created_at < queue[2].created_at
    /\ queue[2].status = "Processing"
    /\ queue[1].status = "Completed"
    /\ claims = <<1, 1>>
    /\ got[1] = {2}
    /\ got[2] = {}

\* C11 - Tie-breaking: of the Queued rows that share the smallest created_at,
\* check_for_jobs claims the one with the smallest id; so of two rows with
\* the same created_at the one with the larger id is never claimed while the
\* other has not been claimed yet.
TieBreakById ==
    \A i, k \in Ids(queue) :
        (i < k /\ queue[i].created_at = queue[k].created_at /\ claims[k] >= 1)
            => claims[i] >= 1

\* C20 - check_for_jobs effect and frame: a call that returns an id changes
\* exactly that row, which was Queued, and only its status (to Processing);
\* every other field of it and every other row stay as they were; a call
\* that returns none found no Queued row and changes nothing.
ClaimEffectAndFrame ==
    [][ /\ \A id \in Ids(queue) :
              claims'[id] > claims[id]
                => /\ queue[id].status = "Queued"
                   /\ queue' = [queue EXCEPT ![id].status = "Processing"]
                   /\ \E c \in Clients : got' = [got EXCEPT ![c] = @ \cup {id}]
        /\ \A c \in Clients :
              (c \in sawNone' /\ c \notin sawNone)
                => /\ WithStatus(queue, "Queued") = {}
                   /\ queue' = queue
                   /\ got' = got ]_vars

\* two Queued rows of which a call claimed one and left the other as it
\* was, and the other client then called twice: it got the second row, and,
\* that one done, none
ClaimEffectWitness ==
    /\ Len(queue) = 2
    /\ queue[1].status = "Processing"
    /\ queue[2].status = "Completed"
    /\ claims = <<1, 1>>
    /\ got[1] = {1}
    /\ 2 \in sawNone

\* C21 - enqueue: a call adds exactly one row, with status Queued and
\* num_retries 0, under an id no existing row has (the next one), and leaves
\* every existing row as it was.
EnqueueEffect ==
    [][ Len(claims') > Len(claims) =>
          /\ Ids(queue') = Ids(queue) \cup {Len(queue) + 1}
          /\ queue'[Len(queue) + 1].status = "Queued"
          /\ queue'[Len(queue) + 1].num_retries = 0
          /\ queue'[Len(queue) + 1].error = NoError
          /\ \A id \in Ids(queue) : queue'[id] = queue[id] ]_vars

\* a row enqueued while the first one was already claimed and completed
EnqueueEffectWitness ==
    /\ Len(queue) = 2
    /\ queue[1].status = "Completed"
    /\ queue[2].status = "Queued"
    /\ queue[2].num_retries = 0
    /\ claims = <<1, 0>>

----------------------------------------------------------------------------
(* Properties of the worker process (Spec) *)

Range(f) == { f[i] : i \in DOMAIN f }

\* C3 - Worker failure handling: no task whose handler ended in a failure
\* (no vector-store client, or _process_embeddings returned Err) remains in
\* Processing.
FailedHandlerLeavesProcessing ==
    \A id \in Ids(queue) :
        handler[id] \in {"noclient", "failed"} => queue[id].status # "Processing"

\* C5 - Concurrency cap: 0 <= num_active <= max_active in every state.
CounterInRange == num_active \in 0 .. max_active

\* the counter is back at the cap after a handler has given its slot up,
\* and the scheduler stands before its next limit check
CounterInRangeWitness ==
    /\ num_active = max_active
    /\ schedPc = "select"
    /\ \E id \in Ids(queue) : handler[id] = "done"

\* C6 - Processing cap: at most max_active rows are Processing.
ProcessingCap == Cardinality(WithStatus(queue, "Processing")) <= max_active

\* C7 - Progress: as long as no handler run fails and no shutdown was
\* signalled, the scheduler does not stop while Queued rows remain.
SchedulerKeepsClaiming ==
    (Faulted = {} /\ ~shutdown /\ schedPc = "stopped")
        => WithStatus(queue, "Queued") = {}

\* the dispatcher has taken job id off the channel
Received(id) == claims[id] > 0 /\ schedJob # id /\ id \notin Range(chan)

\* C8 - Summarize and Extract tasks are executed: once the dispatcher has
\* received such a task it has a handler, and the dispatcher is still
\* serving the channel (no shutdown signalled).
LLMTasksServed ==
    ~shutdown =>
        \A id \in LLMTasks(queue) :
            Received(id) => (handler[id] # "none" /\ workersPc = "recv")

ShutdownDrains ==
    (shutdown /\ schedPc = "stopped" /\ workersPc # "recv")
        => handler[1] # "spawned"

----------------------------------------------------------------------------
(* Properties of the ingest handler (IngestSpec) *)

\* the positions of the committed embeddings rows of a task's document
CommittedSegments(t) ==
    { k \in DOMAIN embeddings : embeddings[k].document_id = DocUuid(t) }

\* C12 - Ingest atomicity: the Document row and the Segment rows of an ingest
\* are in the metadata store together or not at all: a document is there
\* exactly with all its N segments, and a failed attempt leaves neither.
IngestAtomicity ==
    \A t \in IngestTasks :
        IF DocUuid(t) \in documents
          THEN Cardinality(CommittedSegments(t)) = windows[t]
          ELSE CommittedSegments(t) = {}

\* C13 - Dual-write order: the vector store holds an entry only for segments
\* whose metadata transaction has committed (bulk_insert comes after the
\* commit, and a failed commit leaves no vector-store entry).
VectorsAfterCommit ==
    \A uuid \in StoredUuids(vdisk) :
        \E j \in DOMAIN embeddings : embeddings[j].uuid = uuid

\* C14 - Dual-write tolerance: a failed add_vectors never makes the handler
\* return Err; it goes on to the commit, and once the commit succeeded the
\* segments are committed and the task ends Completed, neither Failed nor
\* re-queued.
DualWriteTolerance ==
    \A t \in IngestTasks :
        /\ err[t] # "vectors"
        /\ vecOk[t] = "err" =>
            /\ ipc[t] \in {"commit", "markdone", "done"} \/ err[t] = "commit"
            /\ queue[t].status \in {"Processing", "Completed"}
            /\ ipc[t] \in {"markdone", "done"}
                 => Cardinality(CommittedSegments(t)) = windows[t]
            /\ ipc[t] = "done" => queue[t].status = "Completed"

\* a handler whose add_vectors failed has finished and its task is Completed
DualWriteToleranceWitness ==
    \E t \in IngestTasks :
        /\ vecOk[t] = "err"
        /\ ipc[t] = "done"
        /\ queue[t].status = "Completed"
        /\ CommittedSegments(t) # {}

\* C15 - No lost vector entries under concurrency: when both handlers have
\* finished and both add_vectors calls reported success, the persisted store
\* holds an entry for every committed segment of both tasks.
NoLostVectors ==
    (\A t \in IngestTasks : ipc[t] = "done" /\ vecOk[t] = "ok")
        => \A j \in DOMAIN embeddings : embeddings[j].uuid \in StoredUuids(vdisk)

\* C16 - Segment indexing: the committed segments of a successfully ingested
\* document are, in insertion order, numbered 0 .. N-1 and carry the windows
\* in the order the embedder returned them; no two committed rows share
\* (document_id, segment), whatever attempts were made.
SegmentIndexing ==
    /\ \A t \in IngestTasks :
          ipc[t] \in {"markdone", "done"} =>
            LET OfDoc(row) == row.document_id = DocUuid(t)
                rows == SelectSeq(embeddings, OfDoc)
            IN  /\ Len(rows) = windows[t]
                /\ \A k \in 1 .. Len(rows) :
                      /\ rows[k].segment = k - 1
                      /\ rows[k].content = Window(t, k)
    /\ \A j, k \in DOMAIN embeddings :
          (/\ embeddings[j].document_id = embeddings[k].document_id
           /\ embeddings[j].segment = embeddings[k].segment) => j = k

\* a document of two windows ingested on the second run of its handler,
\* while the other task's document is stored too
SegmentIndexingWitness ==
    \E t, u \in IngestTasks :
        /\ t # u
        /\ windows[t] >= 2
        /\ attempts[t] = 2
        /\ ipc[t] = "done"
        /\ ipc[u] = "done"

\* C17 - Idempotent re-run: a re-run of the handler for the same task is
\* never made to fail by a row an earlier attempt left, and after it has
\* succeeded there is one Document row and one Segment row per index.
IdempotentRerun ==
    \A t \in IngestTasks :
        /\ err[t] # "conflict"
        /\ (attempts[t] > 1 /\ ipc[t] = "done")
             => /\ DocUuid(t) \in documents
                /\ Cardinality(CommittedSegments(t)) = windows[t]

----------------------------------------------------------------------------
(* Properties of the API and of the local store (ApiSpec) *)

HasRow(hit) == \E k \in DOMAIN embeddings : embeddings[k].uuid = hit.uuid

\* C22 - Query join: a search answered with 200 returns at most limit
\* results, one for each uuid the store returned that has a Segment row, in
\* the store's order, each with that row's document, index and content; a
\* uuid without a row is passed over and the request still succeeds.
QueryJoin ==
    [][ (resp' # resp /\ resp'.op = "search" /\ resp'.code = 200) =>
          LET kept == SelectSeq(resp'.hits, HasRow)
          IN  /\ Len(resp'.hits) <= resp'.limit
              /\ Len(resp'.results) <= resp'.limit
              /\ Len(resp'.results) = Len(kept)
              /\ \A i \in DOMAIN kept :
                    /\ resp'.results[i]._id = kept[i].uuid
                    /\ resp'.results[i].score = kept[i].score
                    /\ \E k \in DOMAIN embeddings :
                          /\ embeddings[k].uuid = kept[i].uuid
                          /\ resp'.results[i].document_id = embeddings[k].document_id
                          /\ resp'.results[i].segment = embeddings[k].segment
                          /\ resp'.results[i].content = embeddings[k].content ]_vars

\* a search answered with two hits of which the first has no Segment row
\* (its document's commit failed) and the second has one
QueryJoinWitness ==
    /\ resp.op = "search"
    /\ resp.code = 200
    /\ Len(resp.hits) = 2
    /\ Len(resp.results) = 1
    /\ resp.results[1]._id = resp.hits[2].uuid
    /\ ~HasRow(resp.hits[1])

\* C23 - Search of a missing collection: on the LocalGraph backend a search
\* of a collection that does not exist is answered 404 NOT_FOUND and leaves
\* the collection absent.
SearchOfMissingCollection ==
    [][ (/\ Backend(scheme) = "LocalGraph"
         /\ ~vdisk.dir
         /\ resp' # resp
         /\ resp'.op = "search")
          => /\ resp'.code = 404
             /\ vdisk' = vdisk ]_vars

\* what a search finds in the store opened from the files, asked for as many
\* neighbours as the store has points
Findable(files) ==
    { Range(search(OpenStore(files), q, Len(q))) : q \in Rankings(OpenStore(files)) }

\* C24 - Delete-all: a successful delete_all leaves the client's store empty
\* and the collection without files, so that no store can be loaded and a
\* search finds nothing; the vectors of an ingest run that follows are
\* inserted and every search of the collection returns them.
DeleteAll ==
    [][ /\ (resp' # resp /\ resp'.op = "delete" /\ resp'.code = 200)
            => /\ resp'.store._id_map = << >>
               /\ resp'.store.hnsw = {}
               /\ ~has_store(vdisk')
               /\ vdisk'.meta = {}
               /\ vdisk'.points = {}
               /\ Findable(vdisk') = {{}}
        /\ \A t \in IngestTasks :
             (/\ resp.op = "delete"
              /\ resp.code = 200
              /\ resp' = resp
              /\ vecOk[t] # "ok"
              /\ vecOk'[t] = "ok")
               => /\ Range(VectorIds(t)) \subseteq StoredUuids(vdisk')
                  /\ \A found \in Findable(vdisk') :
                        Range(VectorIds(t)) \subseteq { h.uuid : h \in found } ]_vars

\* a collection that held the vectors of task 1 was deleted and the window
\* of task 2 was ingested into it afterwards
DeleteAllWitness ==
    /\ resp.op = "delete"
    /\ resp.code = 200
    /\ resp.found
    /\ vecOk[1] = "ok"
    /\ vecOk[2] = "ok"
    /\ StoredUuids(vdisk) = Range(VectorIds(2))

\* C26 - delete(id) on the LocalGraph backend: the call returns the
\* NotSupported error to its caller, which goes on running.
DeleteNotSupported ==
    resp.op = "store.delete" => resp.message = "NotSupported"

\* C27 - Backend dispatch: the service never serves a request or claims a
\* task while its vector-store URI has a scheme other than hnsw and
\* opensearch+https.
UnsupportedSchemeNeverServes ==
    Backend(scheme) = "Unsupported"
        => /\ ~serving
           /\ resp.op = "none"
           /\ \A id \in Ids(queue) : queue[id].status = "Queued"

----------------------------------------------------------------------------
(* Properties of the store's files (IngestSpec) *)

----------------------------------------------------------------------------
(* Properties of the LLM functions (LlmSpec) *)

\* C28 - LLM budget: a text of at most MAX_SMALL tokens is segmented into
\* exactly one chunk, the text itself, and every chunk of a text of more than
\* MAX_LARGE tokens has at most MAX_LARGE tokens (MAX_TOKENS and
\* MAX_16K_TOKENS for OpenAI, the local MAX_TOKENS for both locally).
SegmentWithinBudget ==
    LET Holds(MAX_SMALL, MAX_LARGE) ==
            /\ Tokens(resp.text) <= MAX_SMALL => resp.splits = <<resp.text>>
            /\ Tokens(resp.text) > MAX_LARGE =>
                  \A i \in DOMAIN resp.splits : Tokens(resp.splits[i]) <= MAX_LARGE
    IN  /\ resp.op = "summarize" => Holds(MAX_TOKENS, MAX_16K_TOKENS)
        /\ resp.op = "local.segment_text" => Holds(LOCAL_MAX_TOKENS, LOCAL_MAX_TOKENS)

\* the beginnings of a text that end where a run of it ends
WordPrefixes(text) ==
    { Join(SubSeq(Split(text), 1, k)) : k \in 0 .. Len(Split(text)) }

\* C29 - truncate_text: the content is the longest beginning of the text,
\* cut where a run ends, that has no more tokens than the chosen model's
\* budget.
TruncateIsLongestPrefix ==
    resp.op \in {"extract", "local.truncate_text"} =>
        LET fitting == { p \in WordPrefixes(resp.text) : Tokens(p) <= resp.budget }
        IN  /\ Tokens(resp.content) <= resp.budget
            /\ resp.content = SubSeq(resp.text, 1, Len(resp.content))
            /\ resp.content \in fitting
            /\ \A p \in fitting : Len(p) <= Len(resp.content)

\* C30 - Extract schema validation: a request with an ill-formed json_schema
\* is answered with a 4xx status and the validator's message, and no
\* chat_completion call is made for it.
ExtractSchemaRejected ==
    (resp.op = "extract" /\ resp.json_schema = "invalid") =>
        /\ resp.code \in 400 .. 499
        /\ resp.message = compile("invalid").err
        /\ resp.llm_calls = 0

----------------------------------------------------------------------------
(* Properties of the counter and of the hand-off (Spec) *)

\* the tasks dispatched and not yet finished: the one the scheduler is
\* sending, those buffered in the channel, those whose handler is running
InFlight ==
    (IF schedPc = "send" THEN {schedJob} ELSE {})
      \cup Range(chan)
      \cup { id \in DOMAIN handler : handler[id] \in {"spawned", "errored", "marked"} }

\* C31 - Counter accounting: while the dispatcher is receiving, num_active
\* is the number of tasks dispatched and not yet finished, so it is 0
\* whenever no task is in flight.
CounterAccounting ==
    workersPc = "recv" => num_active = Cardinality(InFlight)

\* C32 - Claim-to-dispatch hand-off: every Processing row is held by the
\* scheduler's current step, by a slot of the dispatch channel, or has been
\* taken up by the dispatcher.
ClaimHandOff ==
    \A id \in Ids(queue) :
        queue[id].status = "Processing"
            => \/ schedJob = id
               \/ id \in Range(chan)
               \/ handler[id] # "none"

----------------------------------------------------------------------------
(* Properties of mark_failed (QueueSpec) *)

\* C33 - mark_failed without retry: the call sets the row's status to Failed
\* and records the error; the row's num_retries, created_at and payload stay
\* as they were, no other row changes, and the row is not queued again,
\* whatever its num_retries.
MarkFailedNoRetry ==
    [][ \A c \in Clients : \A id \in got[c] :
          (id \notin got'[c] /\ queue'[id].error = "Permanent")
            => /\ queue'[id].status = "Failed"
               /\ queue'[id].num_retries = queue[id].num_retries
               /\ queue'[id].created_at = queue[id].created_at
               /\ queue'[id].payload = queue[id].payload
               /\ queue'[id].task_type = queue[id].task_type
               /\ Len(queue') = Len(queue)
               /\ \A j \in Ids(queue) \ {id} : queue'[j] = queue[j] ]_vars

\* a row failed for good after two retries, beside another row
MarkFailedNoRetryWitness ==
    /\ Len(queue) = 2
    /\ \E id \in Ids(queue) :
          /\ queue[id].status = "Failed"
          /\ queue[id].error = "Permanent"
          /\ queue[id].num_retries = 2

\* C34 - Re-queue keeps queue position: a row that mark_failed queues again
\* keeps its created_at, so check_for_jobs hands out no Queued row with a
\* later created_at before it.
RequeueKeepsPosition ==
    [][ \A c \in Clients : \A id \in got[c] :
          (id \notin got'[c] /\ queue'[id].status = "Queued")
            => /\ queue'[id].created_at = queue[id].created_at
               /\ \A j \in ClaimCandidates(queue') :
                     queue'[j].created_at <= queue'[id].created_at ]_vars

\* the first row is queued again after a failure while a row enqueued later
\* is waiting
RequeueKeepsPositionWitness ==
    /\ Len(queue) = 2
    /\ queue[1].status = "Queued"
    /\ queue[1].num_retries = 1
    /\ queue[1].error = "Transient"
    /\ queue[2].status = "Queued"
    /\ queue[2].created_at > queue[1].created_at
    /\ claims = <<1, 0>>
    /\ ClaimCandidates(queue) = {1}

----------------------------------------------------------------------------
(* Properties of the model choice and of the summary (LlmSpec) *)

\* C35 - Model selection boundary: segment chooses gpt-3.5-turbo exactly for
\* a text of at most MAX_TOKENS tokens and gpt-3.5-turbo-16k for any longer
\* one, and truncate_text chooses the same model for the same text.
ModelSelection ==
    resp.op = "summarize" =>
        /\ resp.model = "gpt-3.5-turbo" <=> Tokens(resp.text) <= MAX_TOKENS
        /\ resp.model = "gpt-3.5-turbo-16k" <=> Tokens(resp.text) > MAX_TOKENS
        /\ resp.model = truncate_text(resp.text).model

\* C36 - Summarize output: the buffer generate_summary returns as Ok is the
\* chat_completion answers of all the chunks, in chunk order; it is not
\* returned as Ok when an answer is missing.
SummaryComplete ==
    (resp.op = "summarize" /\ resp.result = "Ok") =>
        /\ \A i \in DOMAIN resp.splits : resp.answers[i] = "ok"
        /\ resp.summary = [i \in DOMAIN resp.splits |-> Response(resp.splits[i])]

\* C38 - No empty chunk: every part that segment or segment_text returns for
\* a text (none of the texts is empty) holds at least one word.
NoEmptyChunk ==
    resp.op \in {"summarize", "local.segment_text"} =>
        \A i \in DOMAIN resp.splits : resp.splits[i] # << >>

----------------------------------------------------------------------------
(* Properties of split_text (SplitSpec) *)

\* the words of a part (the empty part has none)
PartWords(part) == IF part = << >> THEN << >> ELSE Split(part)

RECURSIVE Flatten(_)
Flatten(seqs) == IF seqs = << >> THEN << >> ELSE Head(seqs) \o Flatten(Tail(seqs))

\* C37 - split_text coverage and overlap: for a text above the budget, each
\* part after the first begins with the last 10 words of the part before it
\* when that part had more than 10 words, and the parts without these
\* overlaps, put one after the other, are the words of the text.
SplitCoversText ==
    (resp.op \in {"segment", "segment_text"} /\ Tokens(resp.text) > resp.budget) =>
        LET words(i)   == PartWords(resp.splits[i])
            overlap(i) == IF i > 1 /\ Len(words(i - 1)) > 10 THEN 10 ELSE 0
        IN  /\ \A i \in 2 .. Len(resp.splits) :
                  Len(words(i - 1)) > 10 =>
                      /\ Len(words(i)) >= 10
                      /\ SubSeq(words(i), 1, 10)
                           = SubSeq(words(i - 1), Len(words(i - 1)) - 9, Len(words(i - 1)))
            /\ Flatten([i \in DOMAIN resp.splits |->
                          SubSeq(words(i), overlap(i) + 1, Len(words(i)))])
                 = Split(resp.text)

\* a text above the budget split into four parts or more, of which the first
\* has twelve words and the second eleven
SplitCoversTextWitness ==
    /\ resp.op = "segment_text"
    /\ Tokens(resp.text) > resp.budget
    /\ Len(resp.splits) >= 4
    /\ Len(PartWords(resp.splits[1])) = 12
    /\ Len(PartWords(resp.splits[2])) = 11

----------------------------------------------------------------------------
(* Properties of the store instances (StoreSpec) *)

\* C39 - Id-map consistency: the keys of every instance's _id_map are the
\* ids 1..n of the n points of its graph, and search never fails to find a
\* neighbour's id in the map.
IdMapConsistent ==
    /\ \A t \in IngestTasks :
          /\ DOMAIN vmem[t]._id_map = vmem[t].hnsw
          /\ vmem[t].hnsw = 1 .. Cardinality(vmem[t].hnsw)
    /\ resp.message # "Internal inconsistency"

====
